---- MODULE Spec2Model ----
(***************************************************************************)
(* Model of the ring lifecycle of useRingManager (src/src/hooks/           *)
(* useRingManager.ts), of the keep-alive effect of useSignalTracker        *)
(* (src/src/hooks/useSignalTracker.ts) and of the wake-lock and screen     *)
(* wake-up helpers of src/src/utils/wakeLockUtils.ts.                      *)
(*                                                                         *)
(* Time is a discrete clock counted in half polling periods, so that an    *)
(* event (a promise resolving, a button press) can fall between two ticks  *)
(* of the 1000 ms interval.  Every handler runs to completion (one         *)
(* JavaScript task); an await splits triggerRing into three steps.  React  *)
(* commits a state change and re-runs the effects whose dependencies       *)
(* changed before the next task runs, so a handler reads the state of the  *)
(* latest commit.                                                          *)
(***************************************************************************)
EXTENDS Integers, Sequences, FiniteSets, Bags, TLC

\* Clock units in one polling interval (setInterval(..., 1000)); one second.
Period == 2

\* The clock stops at MaxTime.
MaxTime == 8

\* At most MaxPending triggerRing invocations are suspended at an await.
MaxPending == 2

\* The platform hands out at most MaxLocks wake-lock sentinels at a time.
MaxLocks == 2

\* Largest antidelay (seconds) the user sets.
MaxAntidelay == 1

VARIABLES
    now,                  \* the wall clock, in clock units
    savedSignals,         \* prop savedSignals: the saved list
    antidelaySeconds,     \* prop antidelaySeconds
    isRinging,            \* useState(false)
    currentRingingSignal, \* useState<Signal | null>(null)
    wakeLock,             \* useState<WakeLockSentinel | null>(null)
    ringOffButtonPressed, \* useState(false)
    alreadyRangIds,       \* useState<Set<string>>(new Set())
    intervalArmed,        \* whether the interval of intervalRef is live
    nextTickAt,           \* when the live interval next calls back
    audioInstancesRef,    \* useRef<HTMLAudioElement[]>([])
    audioContextsRef,     \* useRef<AudioContext[]>([])
    pending,              \* bag of triggerRing invocations suspended at an await
    liveLocks,            \* sentinels the platform granted and nobody released
    ringEntries,          \* history: triggerRing calls per signal identity
    triggeredCalls,       \* history: onSignalTriggered calls per signal identity
    orphanIntervals,      \* callback times of live intervals intervalRef lost
    backgroundActive,     \* getBackgroundTaskStatus().isActive
    startedWhileActive,   \* history: startBackgroundTask ran on an active task
    wakeUp                \* the wakeUpScreen / forceScreenWakeUp call under way

\* The state of useRingManager and of the keep-alive effect of useSignalTracker.
ringVars == <<now, savedSignals, antidelaySeconds, isRinging, currentRingingSignal,
              wakeLock, ringOffButtonPressed, alreadyRangIds, intervalArmed,
              nextTickAt, audioInstancesRef, audioContextsRef, pending, liveLocks,
              ringEntries, triggeredCalls, orphanIntervals, backgroundActive,
              startedWhileActive>>

vars == <<now, savedSignals, antidelaySeconds, isRinging, currentRingingSignal,
          wakeLock, ringOffButtonPressed, alreadyRangIds, intervalArmed,
          nextTickAt, audioInstancesRef, audioContextsRef, pending, liveLocks,
          ringEntries, triggeredCalls, orphanIntervals, backgroundActive,
          startedWhileActive, wakeUp>>

----------------------------------------------------------------------------
\* Signals

NoSignal == [asset |-> "", direction |-> "", timestamp |-> 0]
NoLock == 0

Sig1 == [asset |-> "EURUSD", direction |-> "up", timestamp |-> 1]
Sig2 == [asset |-> "EURUSD", direction |-> "up", timestamp |-> 2]
Sig3 == [asset |-> "GBPUSD", direction |-> "up", timestamp |-> 2]

Signals == {Sig1, Sig2, Sig3}

\* The lists the save flow hands over.
SignalLists == {<<>>, <<Sig2>>, <<Sig2, Sig3>>, <<Sig1, Sig2>>}

getSignalId(signal) ==
    signal.asset \o "-" \o signal.direction \o "-" \o ToString(signal.timestamp)

SignalIds == {getSignalId(s) : s \in Signals}

\* The Trigger Evaluator: a level check over one polling interval.
EvaluationWindow == Period

checkSignalTime(signal, antidelay, nowInstant) ==
    LET target == (signal.timestamp - antidelay) * Period
    IN  /\ nowInstant >= target
        /\ nowInstant < target + EvaluationWindow

----------------------------------------------------------------------------
\* Wake Controller

\* What a caller of requestWakeLock would get if its promise rejected.
Rejected == -1

\* Variant of requestWakeLock without the catch of lines 9-12.
requestWakeLockNoCatch(supported, granted, sentinel) ==
    IF supported
    THEN IF granted THEN sentinel ELSE Rejected
    ELSE NoLock

\* requestWakeLock (lines 2-14): the sentinel when the platform has the API and
\* grants the request; null when the request fails (the catch of lines 9-12)
\* and without platform support (line 13).
requestWakeLock(supported, granted, sentinel) ==
    IF supported
    THEN IF granted THEN sentinel ELSE NoLock
    ELSE NoLock

\* releaseWakeLock: release() on a sentinel, nothing on null.
releaseWakeLock(lock, live) ==
    IF lock # NoLock THEN live \ {lock} ELSE live

FreshLock == CHOOSE l \in 1..MaxLocks : l \notin liveLocks /\
                 \A m \in 1..MaxLocks : m \notin liveLocks => l <= m

----------------------------------------------------------------------------
\* The polling effect

\* The effect of lines 62-83 after a commit that changed one of its
\* dependencies: the cleanup clears the old interval, the body arms a new one
\* when the list is not empty.
EffectArmed(list) == Len(list) > 0

\* Variant of IntervalNext with half the delay.
IntervalNextEarly(at) == at + 1

\* setInterval(callback, 1000) called or calling back at `at`: the next call.
IntervalNext(at) == at + Period

EffectNextTick(list, at) == IF Len(list) > 0 THEN IntervalNext(at) ELSE 0

\* Variant of ClearedByCleanup: a cleanup that clears nothing.
ClearedByCleanupNever(armed) == FALSE

\* Lines 77-81: the cleanup the previous run returned clears the interval of
\* intervalRef.
ClearedByCleanup(armed) == armed

\* The interval of intervalRef is still live after the cleanup.
LeftLive(armed) == armed /\ ~ClearedByCleanup(armed)

\* The effect of lines 62-83 re-running: the cleanup, then the body.  Line 64
\* overwrites intervalRef.current; an interval that was live there and was not
\* cleared goes on calling back with nothing left to clear it.
RerunArmed(list, armed) == EffectArmed(list) \/ LeftLive(armed)

RerunNextTick(list, at, armed, next) ==
    IF LeftLive(armed) /\ ~EffectArmed(list) THEN next ELSE EffectNextTick(list, at)

RerunOrphans(list, armed, next, orphans) ==
    IF LeftLive(armed) /\ EffectArmed(list) THEN orphans \cup {next} ELSE orphans

----------------------------------------------------------------------------
\* The keep-alive effect of useSignalTracker (lines 51-79)

\* backgroundTaskManager: start() makes the task active, stop() inactive.
startBackgroundTask(active) == TRUE
stopBackgroundTask(active) == FALSE

\* Lines 72-78: the cleanup of the previous run, which closes over the previous
\* list, stops an active task when that list was empty.
ActiveAfterCleanup(active, oldList) ==
    IF active /\ Len(oldList) = 0 THEN stopBackgroundTask(active) ELSE active

\* Variant of StartsTask without the status test.
StartsTaskUnchecked(list, active) == Len(list) > 0

\* Lines 52-57: start() is called for a non-empty list when the status says
\* the task is not active.
StartsTask(list, active) == Len(list) > 0 /\ ~active

\* Lines 52-69: the body of the effect.
ActiveAfterBody(list, active) ==
    IF Len(list) > 0
    THEN IF StartsTask(list, active) THEN startBackgroundTask(active) ELSE active
    ELSE stopBackgroundTask(active)

Task(signal, pc) == [signal |-> signal, pc |-> pc]

----------------------------------------------------------------------------
\* wakeUpScreen and forceScreenWakeUp (wakeLockUtils.ts lines 24-143)

\* The steps of wakeUpScreen in program order: the wake-lock request (line 27),
\* window focus and the visibility event (lines 30-36), the native display
\* wake-up (lines 39-45), vibration (lines 49-52), the notification (lines
\* 55-73) and the near-silent tone (lines 76-95).
ScreenSteps == <<"wakeLock", "focus", "wakeUpDisplay", "vibrate", "notification", "tone">>

\* forceScreenWakeUp builds the array of line 107 in order: wakeUpScreen() runs
\* to its first await (line 27), the two promise executors run (lines 110-136),
\* and the rest of wakeUpScreen follows.
ForceSteps == <<"wakeLock", "keepAwake", "brightness", "focus", "wakeUpDisplay",
                "vibrate", "notification", "tone">>

WakeEntries == {"wakeUpScreen", "forceScreenWakeUp"}

StepsOf(entry) == IF entry = "wakeUpScreen" THEN ScreenSteps ELSE ForceSteps

AllSteps == {ForceSteps[i] : i \in DOMAIN ForceSteps}

\* A failure of the step is caught at the step: requestWakeLock catches its own
\* (lines 6-12), lines 40-44, 56-72 and 76-95 are try/catch blocks, and a
\* promise executor that throws only rejects its promise.
CaughtAtStep(step) ==
    step \in {"wakeLock", "wakeUpDisplay", "notification", "tone", "keepAwake", "brightness"}

\* Every step of wakeUpScreen is inside the try of lines 25-98; the rejected
\* promise of an executor is caught at lines 140-142.
CaughtByOuter(step) == TRUE

WakeIdle == [entry |-> "none", fails |-> {}, pc |-> 0, attempted |-> {},
             aborted |-> FALSE, propagated |-> FALSE]

\* The state after the hook mounted at clock time `at`.
InitAt(at) ==
    /\ now = at
    /\ savedSignals \in SignalLists
    /\ antidelaySeconds \in 0..MaxAntidelay
    /\ isRinging = FALSE
    /\ currentRingingSignal = NoSignal
    /\ wakeLock = NoLock
    /\ ringOffButtonPressed = FALSE
    /\ alreadyRangIds = {}
    /\ intervalArmed = EffectArmed(savedSignals)
    /\ nextTickAt = EffectNextTick(savedSignals, at)
    /\ audioInstancesRef = <<>>
    /\ audioContextsRef = <<>>
    /\ pending = EmptyBag
    /\ liveLocks = {}
    /\ ringEntries = [id \in SignalIds |-> 0]
    /\ triggeredCalls = [id \in SignalIds |-> 0]
    /\ orphanIntervals = {}
    /\ backgroundActive = ActiveAfterBody(savedSignals, FALSE)
    /\ startedWhileActive = FALSE
    /\ wakeUp = WakeIdle

Init == InitAt(0)

\* The clock moves on; a due interval callback and the 200 ms feedback timer
\* run first.
Advance ==
    /\ now < MaxTime
    /\ intervalArmed => now < nextTickAt
    /\ ~ringOffButtonPressed
    /\ now' = now + 1
    /\ UNCHANGED <<savedSignals, antidelaySeconds, isRinging, currentRingingSignal,
                   wakeLock, ringOffButtonPressed, alreadyRangIds, intervalArmed,
                   nextTickAt, audioInstancesRef, audioContextsRef, pending,
                   liveLocks, ringEntries, triggeredCalls,
                   orphanIntervals, backgroundActive, startedWhileActive, wakeUp>>

----------------------------------------------------------------------------
\* The interval callback and triggerRing

\* Variant of shouldTrigger without the registry test.
shouldTriggerNoRegistry(signal) ==
    checkSignalTime(signal, antidelaySeconds, now)

\* Variant of shouldTrigger that evaluates with no antidelay.
shouldTriggerNoAntidelay(signal) ==
    /\ checkSignalTime(signal, 0, now)
    /\ getSignalId(signal) \notin alreadyRangIds

\* Lines 67-70: the evaluator hits and the identity is not in the registry.
shouldTrigger(signal) ==
    /\ checkSignalTime(signal, antidelaySeconds, now)
    /\ getSignalId(signal) \notin alreadyRangIds

\* Lines 66-74: the signals of the list the callback calls triggerRing for, in
\* list order.
FiredSignals == SelectSeq(savedSignals, shouldTrigger)

\* Variant of RingingAfterTrigger: the flag follows the callback's last run.
RingingAfterTriggerReset(fired, ringing) == Len(fired) > 0

\* Variant of SignalAfterTrigger that leaves the displayed signal alone.
SignalAfterTriggerKeep(fired, current) == current

\* Lines 34-35 for every call of one callback run: the flag is set and the
\* last call's signal is the one displayed.
RingingAfterTrigger(fired, ringing) == IF Len(fired) > 0 THEN TRUE ELSE ringing

SignalAfterTrigger(fired, current) ==
    IF Len(fired) > 0 THEN fired[Len(fired)] ELSE current

\* Every triggerRing call runs to its first await (line 38).
StartedTasks(fired) == SetToBag({Task(fired[i], "lock") : i \in 1..Len(fired)})

CountEntries(fired, id) == Cardinality({i \in 1..Len(fired) : getSignalId(fired[i]) = id})

\* The setInterval callback of lines 65-75, with the synchronous part of every
\* triggerRing it calls (lines 31-38).
Tick ==
    /\ intervalArmed
    /\ now = nextTickAt
    /\ BagCardinality(pending) + Len(FiredSignals) <= MaxPending
    /\ isRinging' = RingingAfterTrigger(FiredSignals, isRinging)
    /\ currentRingingSignal' = SignalAfterTrigger(FiredSignals, currentRingingSignal)
    /\ pending' = pending (+) StartedTasks(FiredSignals)
    /\ ringEntries' = [id \in SignalIds |->
                          ringEntries[id] + CountEntries(FiredSignals, id)]
    /\ nextTickAt' = IntervalNext(now)
    /\ UNCHANGED <<now, savedSignals, antidelaySeconds, wakeLock,
                   ringOffButtonPressed, alreadyRangIds, intervalArmed,
                   audioInstancesRef, audioContextsRef, liveLocks,
                   triggeredCalls,
                   orphanIntervals, backgroundActive, startedWhileActive, wakeUp>>

\* Line 39: the state takes whatever the request yielded.
WakeLockAfterRequest(lock, held) == lock

\* triggerRing from the wake-lock request's result to the second await
\* (lines 38-47): the state takes the result and playCustomRingtone is called.
WakeLockResolved(t, supported, granted) ==
    /\ BagIn(t, pending)
    /\ t.pc = "lock"
    /\ (supported /\ granted) => Cardinality(liveLocks) < MaxLocks
    /\ LET lock == requestWakeLock(supported, granted, FreshLock)
       IN  /\ liveLocks' = IF lock # NoLock THEN liveLocks \cup {lock} ELSE liveLocks
           /\ wakeLock' = WakeLockAfterRequest(lock, wakeLock)
    /\ pending' = (pending (-) SetToBag({t})) (+) SetToBag({Task(t.signal, "audio")})
    /\ UNCHANGED <<now, savedSignals, antidelaySeconds, isRinging,
                   currentRingingSignal, ringOffButtonPressed, alreadyRangIds,
                   intervalArmed, nextTickAt, audioInstancesRef, audioContextsRef,
                   ringEntries, triggeredCalls,
                   orphanIntervals, backgroundActive, startedWhileActive, wakeUp>>

\* What playCustomRingtone settles with: a media element playing the custom
\* ringtone, the default tone on an audio context that it appended to
\* audioContextsRef, or an error.
AudioOutcomes == {"element", "context", "error"}

\* playCustomRingtone(customRingtone, audioContextsRef): the default tone's
\* context is appended to the shared collection.
ContextsAfterStart(contexts, outcome, id) ==
    IF outcome = "context" THEN Append(contexts, id) ELSE contexts

\* Lines 48-50: only a media element is tracked.
InstancesAfterStart(instances, outcome, id) ==
    IF outcome = "element" THEN Append(instances, id) ELSE instances

\* Variant of markRang that does not copy the previous set.
markRangAlone(prev, signal) == {getSignalId(signal)}

\* Lines 54-58: the updater copies the previous set and adds the identity.
markRang(prev, signal) == prev \cup {getSignalId(signal)}

\* Lines 53-58 run unless the audio start was rejected at line 47.
ReachesMark(outcome) == outcome # "error"

\* triggerRing after the second await (lines 47-58).  A rejected audio start
\* ends the invocation at line 47: nothing of lines 48-58 runs.  The new
\* registry set is a dependency of the polling effect, which re-arms.
AudioResolved(t, outcome) ==
    /\ BagIn(t, pending)
    /\ t.pc = "audio"
    /\ pending' = pending (-) SetToBag({t})
    /\ IF ReachesMark(outcome)
       THEN /\ audioContextsRef' =
                   ContextsAfterStart(audioContextsRef, outcome, getSignalId(t.signal))
            /\ audioInstancesRef' =
                   InstancesAfterStart(audioInstancesRef, outcome, getSignalId(t.signal))
            /\ triggeredCalls' =
                   [triggeredCalls EXCEPT ![getSignalId(t.signal)] = @ + 1]
            /\ alreadyRangIds' = markRang(alreadyRangIds, t.signal)
            /\ intervalArmed' = RerunArmed(savedSignals, intervalArmed)
            /\ nextTickAt' = RerunNextTick(savedSignals, now, intervalArmed, nextTickAt)
            /\ orphanIntervals' =
                   RerunOrphans(savedSignals, intervalArmed, nextTickAt, orphanIntervals)
       ELSE UNCHANGED <<audioContextsRef, audioInstancesRef, triggeredCalls,
                        alreadyRangIds, intervalArmed, nextTickAt, orphanIntervals>>
    /\ UNCHANGED <<now, savedSignals, antidelaySeconds, isRinging,
                   currentRingingSignal, wakeLock, ringOffButtonPressed,
                   liveLocks, ringEntries, backgroundActive, startedWhileActive,
                   wakeUp>>

----------------------------------------------------------------------------
\* Dismissal

\* Lines 114-120.
RingingAfterRingOff(ringing) == FALSE

\* handleRingOff (lines 86-121).  The media elements playCustomRingtone makes
\* are not attached to the document, so the sweep of lines 108-112 finds none.
HandleRingOff ==
    /\ ringOffButtonPressed' = TRUE
    /\ audioInstancesRef' = <<>>
    /\ audioContextsRef' = <<>>
    /\ IF isRinging
       THEN /\ isRinging' = RingingAfterRingOff(isRinging)
            /\ currentRingingSignal' = NoSignal
            /\ liveLocks' = releaseWakeLock(wakeLock, liveLocks)
            /\ wakeLock' = NoLock
       ELSE UNCHANGED <<isRinging, currentRingingSignal, liveLocks, wakeLock>>
    /\ UNCHANGED <<now, savedSignals, antidelaySeconds, alreadyRangIds,
                   intervalArmed, nextTickAt, pending, ringEntries,
                   triggeredCalls,
                   orphanIntervals, backgroundActive, startedWhileActive, wakeUp>>

\* Line 88: the 200 ms timer clears the pressed flag.
RingOffFeedback ==
    /\ ringOffButtonPressed
    /\ ringOffButtonPressed' = FALSE
    /\ UNCHANGED <<now, savedSignals, antidelaySeconds, isRinging,
                   currentRingingSignal, wakeLock, alreadyRangIds, intervalArmed,
                   nextTickAt, audioInstancesRef, audioContextsRef, pending,
                   liveLocks, ringEntries, triggeredCalls,
                   orphanIntervals, backgroundActive, startedWhileActive, wakeUp>>

----------------------------------------------------------------------------
\* The props change

\* The save flow replaces the list: the polling effect (useRingManager lines
\* 62-83) and the keep-alive effect (useSignalTracker lines 51-79) re-run,
\* each with the cleanup of its previous run first.
SaveSignals(list) ==
    /\ savedSignals' = list
    /\ intervalArmed' = RerunArmed(list, intervalArmed)
    /\ nextTickAt' = RerunNextTick(list, now, intervalArmed, nextTickAt)
    /\ orphanIntervals' = RerunOrphans(list, intervalArmed, nextTickAt, orphanIntervals)
    /\ LET active == ActiveAfterCleanup(backgroundActive, savedSignals)
       IN  /\ backgroundActive' = ActiveAfterBody(list, active)
           /\ startedWhileActive' =
                  (startedWhileActive \/ (StartsTask(list, active) /\ active))
    /\ UNCHANGED <<now, antidelaySeconds, isRinging, currentRingingSignal,
                   wakeLock, ringOffButtonPressed, alreadyRangIds,
                   audioInstancesRef, audioContextsRef, pending, liveLocks,
                   ringEntries, triggeredCalls, wakeUp>>

\* The antidelay changes: the polling effect re-runs.
SetAntidelay(seconds) ==
    /\ seconds # antidelaySeconds
    /\ antidelaySeconds' = seconds
    /\ intervalArmed' = RerunArmed(savedSignals, intervalArmed)
    /\ nextTickAt' = RerunNextTick(savedSignals, now, intervalArmed, nextTickAt)
    /\ orphanIntervals' =
           RerunOrphans(savedSignals, intervalArmed, nextTickAt, orphanIntervals)
    /\ UNCHANGED <<now, savedSignals, isRinging, currentRingingSignal, wakeLock,
                   ringOffButtonPressed, alreadyRangIds, audioInstancesRef,
                   audioContextsRef, pending, liveLocks, ringEntries,
                   triggeredCalls, backgroundActive, startedWhileActive, wakeUp>>

PendingTasks == BagToSet(pending)

Next ==
    \/ Advance
    \/ Tick
    \/ \E t \in PendingTasks, supported \in BOOLEAN, granted \in BOOLEAN :
           WakeLockResolved(t, supported, granted)
    \/ \E t \in PendingTasks, outcome \in AudioOutcomes : AudioResolved(t, outcome)
    \/ HandleRingOff
    \/ RingOffFeedback
    \/ \E list \in SignalLists : SaveSignals(list)
    \/ \E seconds \in 0..MaxAntidelay : SetAntidelay(seconds)

Spec == Init /\ [][Next]_vars

\* The hook with a list and an antidelay that stay as they were at mount,
\* mounted at any phase of the clock's second.
InitFixed == \E at \in 0..(Period - 1) : InitAt(at)

NextFixed ==
    \/ Advance
    \/ Tick
    \/ \E t \in PendingTasks, supported \in BOOLEAN, granted \in BOOLEAN :
           WakeLockResolved(t, supported, granted)
    \/ \E t \in PendingTasks, outcome \in AudioOutcomes : AudioResolved(t, outcome)
    \/ HandleRingOff
    \/ RingOffFeedback

SpecFixed == InitFixed /\ [][NextFixed]_vars

----------------------------------------------------------------------------
\* A call of wakeUpScreen or forceScreenWakeUp, step by step

\* The call starts; the platform fails the steps of `fails`.
WakeCall(entry, fails) ==
    /\ wakeUp.entry = "none"
    /\ wakeUp' = [entry |-> entry, fails |-> fails, pc |-> 1, attempted |-> {},
                  aborted |-> FALSE, propagated |-> FALSE]
    /\ UNCHANGED ringVars

\* The step after `pc`: a failure that is not caught at the step leaves the try
\* block of wakeUpScreen for its catch (line 98), past every later step of
\* wakeUpScreen.
PcAfterStep(entry, step, failed, pc) ==
    IF failed /\ ~CaughtAtStep(step) THEN Len(StepsOf(entry)) + 1 ELSE pc + 1

\* The next step of the call runs.
WakeStep ==
    /\ wakeUp.entry # "none"
    /\ wakeUp.pc <= Len(StepsOf(wakeUp.entry))
    /\ LET step == StepsOf(wakeUp.entry)[wakeUp.pc]
           failed == step \in wakeUp.fails
       IN  wakeUp' = [wakeUp EXCEPT
                         !.attempted = @ \cup {step},
                         !.pc = PcAfterStep(wakeUp.entry, step, failed, @),
                         !.aborted = @ \/ (failed /\ ~CaughtAtStep(step)),
                         !.propagated = @ \/ (failed /\ ~CaughtAtStep(step)
                                                     /\ ~CaughtByOuter(step))]
    /\ UNCHANGED ringVars

WakeReturned == wakeUp.entry # "none" /\ wakeUp.pc = Len(StepsOf(wakeUp.entry)) + 1

NextWake ==
    \/ \E entry \in WakeEntries, fails \in SUBSET AllSteps : WakeCall(entry, fails)
    \/ WakeStep

SpecWake == Init /\ [][NextWake]_vars

----------------------------------------------------------------------------
\* Properties

InList(signal) == \E i \in DOMAIN savedSignals : savedSignals[i] = signal

LockTasks == {t \in PendingTasks : t.pc = "lock"}
AudioTasks == {t \in PendingTasks : t.pc = "audio"}

HasPending(id) == \E t \in PendingTasks : getSignalId(t.signal) = id

\* C1: the interval callback never calls triggerRing for a signal whose
\* identity is already in alreadyRangIds, so a marked identity gets no further
\* RINGING-entry.
C1_NoTriggerOfMarked ==
    [][\A id \in SignalIds :
           ringEntries'[id] > ringEntries[id] => id \notin alreadyRangIds]_vars

\* A callback is due on a listed signal that rang once, is marked, and that the
\* evaluator hits again.
C1_Witness ==
    \E s \in Signals :
        /\ InList(s)
        /\ getSignalId(s) \in alreadyRangIds
        /\ ringEntries[getSignalId(s)] = 1
        /\ checkSignalTime(s, antidelaySeconds, now)
        /\ intervalArmed /\ now = nextTickAt

\* C2: a triggerRing suspended at the wake-lock request or at the audio start
\* has set the ringing flag and has already marked its signal's identity.
C2_MarkedBeforeAwait ==
    \A t \in PendingTasks :
        /\ ringEntries[getSignalId(t.signal)] >= 1
        /\ getSignalId(t.signal) \in alreadyRangIds

\* The consequence C2 draws: a callback that runs while a triggerRing of a
\* signal is suspended does not call triggerRing for that signal again.
NoRefireWhilePending ==
    [][\A id \in SignalIds :
           ringEntries'[id] > ringEntries[id] => ~HasPending(id)]_vars

\* C3: after handleRingOff, whatever the state before, both tracking
\* collections are empty and no wake-lock reservation is held by the state.
C3_DismissClearsAll ==
    [][HandleRingOff =>
           /\ audioInstancesRef' = <<>>
           /\ audioContextsRef' = <<>>
           /\ wakeLock' = NoLock]_vars

\* C4: a wake-lock request that completes after handleRingOff ended the ring
\* (the flag is false when it completes) neither stores the reservation nor
\* leaves it unreleased.
C4_LateReservationReleased ==
    [][\A t \in LockTasks, supported \in BOOLEAN, granted \in BOOLEAN :
           (~isRinging /\ WakeLockResolved(t, supported, granted)) =>
               /\ wakeLock' = NoLock
               /\ liveLocks' \subseteq liveLocks]_vars

\* C5: a triggerRing that completes after handleRingOff ended the ring (the
\* flag is false when it completes) leaves no handle or context of its own
\* tracked, that is playing.
C5_NoAudioAfterDismiss ==
    [][\A t \in AudioTasks, outcome \in AudioOutcomes :
           (~isRinging /\ AudioResolved(t, outcome)) =>
               /\ audioInstancesRef' = audioInstancesRef
               /\ audioContextsRef' = audioContextsRef]_vars

TargetInstant(signal) == (signal.timestamp - antidelaySeconds) * Period

\* Scenario A: one signal in the list, antidelay 0.
ScenarioA(signal) == savedSignals = <<signal>> /\ antidelaySeconds = 0

\* C6: in scenario A the machine is IDLE until the signal's one RINGING-entry,
\* which has happened once the clock has passed the second of T, and no later
\* callback adds another.
C6_ScenarioAOnce ==
    \A s \in Signals :
        ScenarioA(s) =>
            /\ ringEntries[getSignalId(s)] <= 1
            /\ ringEntries[getSignalId(s)] = 0 => ~isRinging
            /\ now >= TargetInstant(s) + EvaluationWindow =>
                   ringEntries[getSignalId(s)] = 1

\* Scenario A two seconds after T, the ring dismissed and the identity marked.
C6_Witness ==
    /\ ScenarioA(Sig2)
    /\ now >= (Sig2.timestamp + 2) * Period
    /\ ringEntries[getSignalId(Sig2)] = 1
    /\ getSignalId(Sig2) \in alreadyRangIds
    /\ ~isRinging

\* C7: a trigger sets the flag and the ringing signal; the wake-lock request
\* and the audio start, whatever they yield, leave the flag as it is, and when
\* the audio start has settled the identity is marked; a dismiss of the ring
\* then leaves IDLE, empty tracking and no held reservation.
C7_FailureStillRings ==
    [][/\ \A id \in SignalIds :
              ringEntries'[id] > ringEntries[id] =>
                  isRinging' /\ currentRingingSignal' # NoSignal
       /\ \A t \in LockTasks, supported \in BOOLEAN, granted \in BOOLEAN :
              WakeLockResolved(t, supported, granted) => isRinging' = isRinging
       /\ \A t \in AudioTasks, outcome \in AudioOutcomes :
              AudioResolved(t, outcome) =>
                  /\ isRinging' = isRinging
                  /\ getSignalId(t.signal) \in alreadyRangIds'
       /\ (isRinging /\ HandleRingOff) =>
              /\ ~isRinging'
              /\ audioInstancesRef' = <<>> /\ audioContextsRef' = <<>>
              /\ wakeLock' = NoLock]_vars

\* C8: a listed signal whose trigger instant the clock reached after the mount
\* has had a RINGING-entry by the time its evaluation window closes.
C8_DetectedByWindowEnd ==
    \A s \in Signals :
        (/\ InList(s)
         /\ TargetInstant(s) >= Period
         /\ now >= TargetInstant(s) + EvaluationWindow)
            => ringEntries[getSignalId(s)] >= 1

\* C9: a step that is not handleRingOff never leaves RINGING, nor clears the
\* ringing signal.
C9_RingingUntilDismiss ==
    [][(isRinging /\ ~HandleRingOff) =>
           (isRinging' /\ currentRingingSignal' # NoSignal)]_vars

\* The ring of Sig1, its only one, is still on two seconds after its second,
\* every triggerRing having completed.
C9_Witness ==
    /\ isRinging
    /\ currentRingingSignal = Sig1
    /\ ringEntries[getSignalId(Sig1)] = 1
    /\ pending = EmptyBag
    /\ now >= (Sig1.timestamp + 2) * Period

\* Two listed signals of one timestamp and different assets, both hit and
\* neither marked.
SameTickPair(a, b) ==
    /\ InList(a) /\ InList(b)
    /\ a.timestamp = b.timestamp /\ a.asset # b.asset
    /\ shouldTrigger(a) /\ shouldTrigger(b)

----------------------------------------------------------------------------
\* C11: a change of the antidelay leaves every identity in the registry, and a
\* signal that has fired once does not fire again, whatever the antidelay
\* becomes afterwards.
C11_NoRefireAfterAntidelayChange ==
    /\ [][antidelaySeconds' # antidelaySeconds
              => alreadyRangIds \subseteq alreadyRangIds']_vars
    /\ [][\A id \in SignalIds :
              ringEntries'[id] > ringEntries[id] => ringEntries[id] = 0]_vars

\* C12: in every run of the interval callback, a signal of the list whose
\* identity is not in the registry does not fire before timestamp - antidelay
\* and fires when the clock is exactly at timestamp - antidelay.
C12_FiresAtTargetNotBefore ==
    [][Tick =>
          \A i \in DOMAIN savedSignals :
              LET s == savedSignals[i]
                  id == getSignalId(s)
              IN  id \notin alreadyRangIds =>
                      /\ now < TargetInstant(s) => ringEntries'[id] = ringEntries[id]
                      /\ now = TargetInstant(s) =>
                              /\ ringEntries'[id] = ringEntries[id] + 1
                              /\ isRinging'
                              /\ CopiesIn(Task(s, "lock"), pending') >= 1]_vars

\* Scenario B at the model's scale: with an antidelay of one second the signal
\* has just fired, one second before its timestamp.
C12_Witness ==
    /\ antidelaySeconds = 1
    /\ InList(Sig2)
    /\ now = (Sig2.timestamp - 1) * Period
    /\ ringEntries[getSignalId(Sig2)] = 1
    /\ CopiesIn(Task(Sig2, "lock"), pending) = 1

\* C15: every RINGING-entry is followed by one call of onSignalTriggered for
\* that signal: never more calls than entries, and as many calls as entries
\* once no triggerRing of that signal is under way.
C15_CallbackPerEntry ==
    \A id \in SignalIds :
        /\ triggeredCalls[id] <= ringEntries[id]
        /\ ~HasPending(id) => triggeredCalls[id] = ringEntries[id]

IsPrefix(s, t) == Len(s) <= Len(t) /\ \A i \in DOMAIN s : s[i] = t[i]

\* C18: a triggerRing that ends while the engine is RINGING keeps every
\* tracked handle and marks its identity; a dismissal removes no identity from
\* the registry; and once the session is dismissed no signal that fired before
\* fires again.
C18_SelfLoopThenNoRetrigger ==
    /\ [][\A t \in AudioTasks, outcome \in AudioOutcomes :
              (isRinging /\ AudioResolved(t, outcome))
                  => /\ IsPrefix(audioInstancesRef, audioInstancesRef')
                     /\ IsPrefix(audioContextsRef, audioContextsRef')
                     /\ getSignalId(t.signal) \in alreadyRangIds']_vars
    /\ [][HandleRingOff => alreadyRangIds' = alreadyRangIds]_vars
    /\ [][\A id \in SignalIds :
              (~isRinging /\ ringEntries'[id] > ringEntries[id])
                  => ringEntries[id] = 0]_vars

\* C19: the platform never holds more than one reservation for the session,
\* and a dismissal of a ring with no wake-lock request under way leaves none
\* held.
C19_NoWakeLockLeak ==
    /\ [](Cardinality(liveLocks) <= 1)
    /\ [][(isRinging /\ LockTasks = {} /\ HandleRingOff) => liveLocks' = {}]_vars

\* The positions of the list whose signal the step entered RINGING for.
EnteredAt ==
    {i \in DOMAIN savedSignals :
        ringEntries'[getSignalId(savedSignals[i])]
            > ringEntries[getSignalId(savedSignals[i])]}

LastOf(S) == CHOOSE i \in S : \A j \in S : j <= i

\* C20: isRinging is true exactly when currentRingingSignal is not null; the
\* signal it holds has had a RINGING-entry, and a step that enters RINGING
\* leaves the last signal it entered for.
C20_RingingIffSignal ==
    /\ [](isRinging <=> currentRingingSignal # NoSignal)
    /\ [](currentRingingSignal # NoSignal
              => ringEntries[getSignalId(currentRingingSignal)] >= 1)
    /\ [][EnteredAt # {} => currentRingingSignal' = savedSignals[LastOf(EnteredAt)]]_vars

\* Two signals fired in one callback run: the later of the list is displayed.
C20_Witness ==
    /\ isRinging
    /\ currentRingingSignal = Sig3
    /\ savedSignals = <<Sig2, Sig3>>
    /\ ringEntries[getSignalId(Sig2)] = 1
    /\ ringEntries[getSignalId(Sig3)] = 1
    /\ CopiesIn(Task(Sig2, "lock"), pending) = 1
    /\ CopiesIn(Task(Sig3, "lock"), pending) = 1

\* C16: requestWakeLock always yields a value, never a rejection: null when
\* the platform lacks the API or the request fails, a newly held reservation
\* otherwise; and the release of a null reservation changes nothing.
C16_WakeLockNeverThrows ==
    /\ [][\A t \in LockTasks, supported \in BOOLEAN, granted \in BOOLEAN :
              WakeLockResolved(t, supported, granted)
                  => /\ wakeLock' # Rejected
                     /\ (supported /\ granted)
                            => wakeLock' # NoLock /\ wakeLock' \in liveLocks' \ liveLocks
                     /\ ~(supported /\ granted)
                            => wakeLock' = NoLock /\ liveLocks' = liveLocks]_vars
    /\ [][(isRinging /\ wakeLock = NoLock /\ HandleRingOff)
              => liveLocks' = liveLocks /\ wakeLock' = NoLock]_vars

\* The only request so far yielded null and the ring goes on.
C16_Witness ==
    /\ isRinging
    /\ wakeLock = NoLock
    /\ liveLocks = {}
    /\ ringEntries[getSignalId(Sig2)] = 1
    /\ ringEntries[getSignalId(Sig1)] = 0
    /\ ringEntries[getSignalId(Sig3)] = 0
    /\ CopiesIn(Task(Sig2, "audio"), pending) = 1

\* C13: an interval is live exactly when the list is not empty, and it is the
\* one of intervalRef: no other interval is left live.  Every change of the
\* list or of the antidelay leaves, for a non-empty list, an interval armed at
\* that moment, a full period before its first callback.
C13_OneIntervalNoOrphan ==
    /\ [](intervalArmed <=> Len(savedSignals) > 0)
    /\ [](orphanIntervals = {})
    /\ [](intervalArmed => now <= nextTickAt /\ nextTickAt <= now + Period)
    /\ [][(savedSignals' # savedSignals \/ antidelaySeconds' # antidelaySeconds)
              => (Len(savedSignals') > 0
                     => intervalArmed' /\ nextTickAt' = IntervalNext(now'))]_vars

\* The effect re-ran half a second after the mount, before any signal fired:
\* the interval of the mount is gone and the new one calls back a period later.
C13_Witness ==
    /\ now = 1
    /\ Len(savedSignals) > 0
    /\ intervalArmed
    /\ nextTickAt = now + Period
    /\ orphanIntervals = {}
    /\ \A id \in SignalIds : ringEntries[id] = 0

\* C14: start() never runs on a task that is active; the task is active
\* exactly when the list is not empty; the list becoming empty takes it from
\* active to stopped and the list becoming non-empty again starts it.
C14_KeepAliveFollowsList ==
    /\ [](~startedWhileActive)
    /\ [](backgroundActive <=> Len(savedSignals) > 0)
    /\ [][(Len(savedSignals) > 0 /\ Len(savedSignals') = 0)
              => (backgroundActive /\ ~backgroundActive')]_vars
    /\ [][(Len(savedSignals) = 0 /\ Len(savedSignals') > 0)
              => (~backgroundActive /\ backgroundActive')]_vars

\* A signal fired from a list that has since been emptied: the task is stopped.
C14_Witness ==
    /\ savedSignals = <<>>
    /\ ~backgroundActive
    /\ ~startedWhileActive
    /\ ringEntries[getSignalId(Sig2)] >= 1

\* C17: a call of wakeUpScreen or forceScreenWakeUp that has returned let no
\* failure out to its caller and attempted every one of its steps, whichever
\* steps failed.
C17_StepsIndependent ==
    WakeReturned =>
        /\ ~wakeUp.propagated
        /\ \A i \in DOMAIN StepsOf(wakeUp.entry) :
               StepsOf(wakeUp.entry)[i] \in wakeUp.attempted

====
